---- MODULE Spec2Model ----
(***************************************************************************)
(* Livability score aggregation of backend/Server: the scaling functions,  *)
(* the air / weather / transit adapters, the composite scorer and the      *)
(* /api/city-quality route that drives them, and the fetch functions of    *)
(* air_api_fetcher.py and weather.py.                                      *)
(*                                                                         *)
(* Units.  Python floats are modelled in fixed point:                      *)
(*   scores and totals     tenths          (8.2  is 82)                    *)
(*   weather.py rating     hundredths      (8.46 is 846), it rounds to 2   *)
(*   weights               hundredths      (0.40 is 40)                    *)
(*   MAQI                  whole units, as JSON integers                   *)
(*   temperature           whole degrees in the bodies of the service,     *)
(*                         thousandths of a degree in the scaling harness  *)
(*   distance              metres                                          *)
(* Descriptions are the strings the f-strings of the source build.         *)
(***************************************************************************)
EXTENDS Integers, Sequences, FiniteSets, TLC

VARIABLES
    phase,        \* import of app.py: "load", "serving", or "failed" (ValueError at line 40)
    WEIGHTS,      \* app.py WEIGHTS, hundredths
    API_KEY,      \* app.py API_KEY: TRUE iff MEERSENS_API_KEY is set
    pc,           \* position of the request being handled
    args,         \* query arguments lat, lng of the request
    coord,        \* the parsed coordinate (lat, lon floats)
    airResp,      \* what the air endpoint answered to this request
    weatherResp,  \* what the weather endpoint answered to this request
    air,          \* (air_score, air_desc)
    weather,      \* (weather_score, weather_desc)
    transit,      \* (transit_score, transit_desc)
    sent,         \* requests sent upstream while handling this request
    response,     \* HTTP response of the route for this request
    prev,         \* the previous completed city-quality computation
    raw,          \* scaling harness: the raw measurement
    scaled,       \* scaling harness: what each scaling function returned
    before,       \* scaling harness: the measurement scaled before this one
    order,        \* adapters invoked so far when the scorer may take any order
    fetch,        \* a call of one of the fetch functions of the repository
    collection,   \* app.py collection: the documents of db["reports"]
    usersCollection,  \* app.py usersCollection: the documents of db["users"]
    registering   \* the register requests being handled, one per worker thread

vars == << phase, WEIGHTS, API_KEY, pc, args, coord, airResp, weatherResp,
           air, weather, transit, sent, response, prev, raw, scaled, before,
           order, fetch, collection, usersCollection, registering >>

serviceVars == << phase, WEIGHTS, API_KEY, pc, args, coord, airResp, weatherResp,
                  air, weather, transit, sent, response, prev, order >>

harnessVars == << raw, scaled, before >>

storeVars == << collection, usersCollection, registering >>

(***************************************************************************)
(* Bounds of the scaling harness: how far the raw inputs range beyond the  *)
(* documented domains [0,100] MAQI and [-40,90] degrees C.                 *)
(***************************************************************************)
MaqiMargin == 3
TempMargin == 5

(***************************************************************************)
(* Arithmetic helpers.                                                     *)
(***************************************************************************)
Abs(x) == IF x < 0 THEN -x ELSE x
Max(a, b) == IF b > a THEN b ELSE a
Min(a, b) == IF b < a THEN b ELSE a

\* floor(num / den) for den > 0, also for negative num.
FloorDiv(num, den) == num \div den

\* Python round(x, n) and format(x, ".nf") of the double x: the multiple of
\* the unit nearest to x.  num/den is the exact decimal value in units.  When
\* that value lies exactly between two multiples the double nearest to it is
\* slightly above or below, which decides the result: tieUp says which.
RoundNearest(num, den, tieUp) ==
    LET q == FloorDiv(num, den)
        r == num - q * den
    IN  IF 2 * r > den THEN q + 1
        ELSE IF 2 * r < den THEN q
        ELSE IF tieUp THEN q + 1 ELSE q

(***************************************************************************)
(* app.py lines 29-40: configuration.                                      *)
(***************************************************************************)
DEFAULT_SCORE == 55
DEFAULT_DESCRIPTION == "Data unavailable"

\* The WEIGHTS literal of the source, and two edits of it that the check at
\* line 39 must reject (sums 0.9 and 1.1).
SourceWeights == [air_quality |-> 40, weather_rating |-> 30, transit_score |-> 30]
WeightConfigs ==
    { SourceWeights,
      [air_quality |-> 40, weather_rating |-> 30, transit_score |-> 20],
      [air_quality |-> 50, weather_rating |-> 30, transit_score |-> 30] }

\* sum(WEIGHTS.values()), hundredths
WeightSum(w) == w.air_quality + w.weather_rating + w.transit_score

\* Variant of the check of the weights that only rejects sums above 1.0.
WeightsInvalidAboveOnly(w) == WeightSum(w) * 10 - 1000 > 1

\* abs(sum(WEIGHTS.values()) - 1.0) > 0.001, in thousandths
WeightsInvalid(w) == Abs(WeightSum(w) * 10 - 1000) > 1

(***************************************************************************)
(* JSON values of the upstream bodies: a field is absent (or null), a      *)
(* number, or a string.                                                    *)
(***************************************************************************)
Absent == [t |-> "absent", n |-> 0, s |-> ""]
Num(n) == [t |-> "num", n |-> n, s |-> ""]
Str(s) == [t |-> "str", n |-> 0, s |-> s]
\* A JSON number as Python decodes it: int without, float with a fraction or
\* exponent (floats in hundredths).
IntVal(n) == [t |-> "int", n |-> n, s |-> ""]
FloatVal(n) == [t |-> "float", n |-> n, s |-> ""]

\* A Python call either returns a value or raises.
Return(v) == [exc |-> FALSE, v |-> v]
Raise == [exc |-> TRUE, v |-> 0]

\* float(x) of a JSON value: a number converts, the strings of the model
\* ("n/a") raise ValueError, None raises TypeError.
ToFloat(val) == IF val.t = "num" THEN Return(val.n) ELSE Raise

\* str.title() on the condition labels of the model.
Title(s) ==
    CASE s = "clear" -> "Clear"
      [] s = "snow" -> "Snow"
      [] s = "light rain" -> "Light Rain"
      [] OTHER -> s

(***************************************************************************)
(* 4.1 Scaling functions.                                                  *)
(***************************************************************************)

\* MAQI values m in 0..100 for which 10 - 0.09 m lies exactly between two
\* tenths (m = 5 mod 10) and the double slope * m + 10.0 prints to the upper
\* one: 9.55 -> 9.6, 8.65 -> 8.7, 7.75 -> 7.8, 5.95 -> 6.0, 4.15 -> 4.2,
\* 2.35 -> 2.4, 1.45 -> 1.5; whereas 6.85 -> 6.8, 5.05 -> 5.0, 3.25 -> 3.2.
MaqiTieUp == {5, 15, 25, 45, 65, 85, 95}

\* Variant of _scale_maqi_to_score that forgets to clamp the input.
ScaleMaqiUnclamped(maqi_value) ==
    RoundNearest(1000 - 9 * maqi_value, 10, maqi_value \in MaqiTieUp)

\* Variant of _scale_maqi_to_score whose slope has the wrong sign.
ScaleMaqiRising(maqi_value) ==
    LET maqi_clamped == Max(0, Min(100, maqi_value))
        score == 100 + 9 * maqi_clamped
    IN  RoundNearest(Max(100, score), 10, FALSE)

\* app.py _scale_maqi_to_score: round(max(1.0, slope * clamp(maqi) + 10.0), 1)
\* with slope = (1.0 - 10.0) / (100.0 - 0.0); the score before rounding is
\* (1000 - 9 * maqi_clamped) hundredths.
_scale_maqi_to_score(maqi_value) ==
    LET maqi_clamped == Max(0, Min(100, maqi_value))
        score == 1000 - 9 * maqi_clamped
    IN  RoundNearest(Max(100, score), 10, maqi_clamped \in MaqiTieUp)

\* air_api_fetcher.py _scale_maqi_to_score: float(f'{score:.1f}'), no floor.
fetcher_scale_maqi_to_score(maqi_value) ==
    LET maqi_clamped == Max(0, Min(100, maqi_value))
        intercept == 1000 - (-9) * 0
        score == (-9) * maqi_clamped + intercept
    IN  RoundNearest(score, 10, maqi_clamped \in MaqiTieUp)

\* Temperatures (thousandths of a degree, -45 to 95 degrees) whose rating
\* 10 - (deviation / 65.0) * 10 lies exactly between two tenths, that is
\* deviation = 0.325 + 0.65 k, and for which round(rating, 1) of the binary64
\* rating is the upper tenth; at the other such temperatures it is the lower
\* one.  The direction is not the same on both sides of 25 degrees:
\* 38.325 -> 7.9 but 11.675 -> 8.0, 40.925 -> 7.6 but 9.075 -> 7.5.
WeatherTieUp ==
    { -33175, -32525, -29925, -29275, -28625, -26675, -24075, -22775, -22125,
      -21475, -20175, -19525, -16925, -16275, -15625, -13675, -13025, -10425,
      -9125, -7825, -7175, -6525, -4575, -3275, -2625, -1325, -25, 1925, 3225,
      3875, 5175, 5825, 6475, 8425, 9725, 10375, 11675, 12325, 12975, 15575,
      16225, 16875, 18825, 19475, 22075, 22725, 23375, 26625, 27275, 27925,
      30525, 31175, 33125, 33775, 34425, 37025, 37675, 39625, 40275, 40925,
      43525, 44175, 46125, 46775, 47425, 50025, 50675, 52625, 53275, 53925,
      56525, 57175, 57825, 59125, 60425, 63025, 63675, 64975, 65625, 66925,
      68225, 70175, 71475, 72125, 74075, 74725, 76675, 77975, 78625, 79925,
      81225, 83175 }

\* app.py WeatherService.calculate_weather_rating on a numeric temperature
\* (thousandths of a degree):
\* round(max(1.0, 10 - (deviation / 65.0) * 10), 1), tenths.  In tenths the
\* rating is (65000 - deviation) / 650 for a deviation in thousandths.
WeatherRating(temp) ==
    LET deviation == Abs(temp - 25000)
    IN  RoundNearest(Max(6500, 65000 - deviation), 650, temp \in WeatherTieUp)

\* weather.py WeatherService.calculate_weather_rating on a numeric
\* temperature (thousandths of a degree):
\* round(max(0, 10 - (deviation / 65.0) * 10), 2), hundredths.  In
\* hundredths the rating is (65000 - deviation) / 65, never a tie.
WeatherPyRating(temperature) ==
    LET max_deviation == 65000
        deviation == Abs(temperature - 25000)
    IN  RoundNearest(Max(0, max_deviation - deviation), 65, FALSE)

(***************************************************************************)
(* Floats that reach the transit adapter.  float() of the route accepts    *)
(* decimal literals and also "nan" and "inf"; a float is kept as its kind  *)
(* and the literal it was parsed from.                                     *)
(***************************************************************************)
Fin(lit) == [k |-> "fin", lit |-> lit]
NaN == [k |-> "nan", lit |-> "nan"]
Inf == [k |-> "inf", lit |-> "inf"]

\* float(s) of a query argument: None raises TypeError, text that is no
\* number raises ValueError.
ParseFloat(arg) ==
    IF ~arg.present THEN Raise
    ELSE IF arg.text = "nan" THEN Return(NaN)
    ELSE IF arg.text = "inf" THEN Return(Inf)
    ELSE IF arg.text = "abc" THEN Raise
    ELSE Return(Fin(arg.text))

(***************************************************************************)
(* transit_score.py                                                        *)
(***************************************************************************)
CALGARY_DOWNTOWN_LAT == Fin("51.045")
CALGARY_DOWNTOWN_LNG == Fin("-114.075")

\* A distance in km as a double: finite (kept in metres) or nan.
Metres(m) == [k |-> "fin", m |-> m]
NaNDistance == [k |-> "nan", m |-> 0]

\* transit_score.py _haversine_distance(lat1, lon1, lat2, lon2) towards the
\* hub, evaluated in binary64 on the coordinates of the model:
\*   (51.045, -114.075)          0.0 km                     the hub itself
\*   (51.05, -114.07)            0.6567172229327395 km
\*   (51.09, -114.15)            7.245838188251468 km
\*   (50.93, -113.88)            18.703454996417815 km
\*   (-51.04500043, 65.9249988)  a = 1.0000000000000002, so math.sqrt(1 - a)
\*                               raises ValueError (near the hub's antipode)
\*   an infinite latitude or longitude: math.sin(inf) raises ValueError
\*   a nan latitude or longitude, none infinite: the distance is nan
_haversine_distance(lat1, lon1, lat2, lon2) ==
    IF lat1.k = "inf" \/ lon1.k = "inf" \/ lat2.k = "inf" \/ lon2.k = "inf" THEN Raise
    ELSE IF lat1.k = "nan" \/ lon1.k = "nan" \/ lat2.k = "nan" \/ lon2.k = "nan"
        THEN Return(NaNDistance)
    ELSE IF <<lat1, lon1>> = <<lat2, lon2>> THEN Return(Metres(0))
    ELSE CASE <<lat1.lit, lon1.lit>> = <<"51.05", "-114.07">> -> Return(Metres(657))
           [] <<lat1.lit, lon1.lit>> = <<"51.09", "-114.15">> -> Return(Metres(7246))
           [] <<lat1.lit, lon1.lit>> = <<"50.93", "-113.88">> -> Return(Metres(18703))
           [] <<lat1.lit, lon1.lit>> = <<"-51.04500043", "65.9249988">> -> Raise

\* f"{distance_km:.1f}"
FormatKm(distance_km) ==
    IF distance_km.k = "nan" THEN "nan"
    ELSE LET t == RoundNearest(distance_km.m, 100, FALSE)
         IN  ToString(t \div 10) \o "." \o ToString(t % 10)

\* transit_score.py get_transit_score lines 52-64: the score of a distance.
\*   clamped = min(distance_km, 15.0)     (nan stays nan: 15.0 < nan is False)
\*   score = 10.0 + clamped * (2.0 - 10.0) / 15.0
\*   score = round(max(1.0, score), 1)    (max(1.0, nan) is 1.0)
\* In tenths the score is 100 - 2 m / 375 for m metres, never a tie.
TransitScale(distance_km) ==
    IF distance_km.k = "nan" THEN 10
    ELSE LET clamped_distance_m == Min(distance_km.m, 15000)
             score == 37500 - 2 * clamped_distance_m
         IN  RoundNearest(Max(3750, score), 375, FALSE)

\* Variant of the description that prints the clamped distance.
TransitDescriptionClamped(score, distance_km) ==
    LET desc_qualifier ==
            IF score >= 85 THEN "Excellent Access (Walkable to LRT)"
            ELSE IF score >= 60 THEN "Good Access (Main Bus Route Coverage)"
            ELSE "Limited Access (Suburban/Car Dependent)"
        shown == IF distance_km.k = "nan" THEN distance_km
                 ELSE Metres(Min(distance_km.m, 15000))
    IN  "Transit: " \o desc_qualifier \o " (" \o FormatKm(shown) \o " km from downtown)"

\* transit_score.py get_transit_score lines 67-74: the description.
TransitDescription(score, distance_km) ==
    LET desc_qualifier ==
            IF score >= 85 THEN "Excellent Access (Walkable to LRT)"
            ELSE IF score >= 60 THEN "Good Access (Main Bus Route Coverage)"
            ELSE "Limited Access (Suburban/Car Dependent)"
    IN  "Transit: " \o desc_qualifier \o " (" \o FormatKm(distance_km) \o " km from downtown)"

\* Variant of get_transit_score that looks at what the weather adapter has
\* left behind: without a weather result it reports the floor.
TransitScoreAfterWeather(latitude, longitude) ==
    LET d == _haversine_distance(latitude, longitude,
                                 CALGARY_DOWNTOWN_LAT, CALGARY_DOWNTOWN_LNG)
    IN  IF d.exc THEN Raise
        ELSE LET score == IF weather.desc = "" THEN 10 ELSE TransitScale(d.v)
             IN  Return([score |-> score, desc |-> TransitDescription(score, d.v)])

\* transit_score.py get_transit_score: returns (score, description), or
\* raises what _haversine_distance raises.
get_transit_score(latitude, longitude) ==
    LET d == _haversine_distance(latitude, longitude,
                                 CALGARY_DOWNTOWN_LAT, CALGARY_DOWNTOWN_LNG)
    IN  IF d.exc THEN Raise
        ELSE LET score == TransitScale(d.v)
             IN  Return([score |-> score, desc |-> TransitDescription(score, d.v)])

(***************************************************************************)
(* What an upstream endpoint can answer to requests.get(..., timeout=10):  *)
(* a RequestException (connection failure, timeout), or an HTTP response   *)
(* with a status and a body.                                               *)
(***************************************************************************)
AirBody(json, found, value, qualification) ==
    [json |-> json, found |-> found, value |-> value, qualification |-> qualification]
NoAirBody == AirBody(FALSE, FALSE, Absent, Absent)

WeatherBody(json, temperature, condition) ==
    [json |-> json, temperature |-> temperature, condition |-> condition]
NoWeatherBody == WeatherBody(FALSE, Absent, Absent)

Http(status, body) == [kind |-> "http", status |-> status, body |-> body]
RequestException(body) == [kind |-> "error", status |-> 0, body |-> body]
NotCalled(body) == [kind |-> "none", status |-> 0, body |-> body]

AirOutcomes ==
    { RequestException(NoAirBody),
      Http(500, NoAirBody),
      Http(401, NoAirBody),
      Http(203, AirBody(TRUE, TRUE, Num(20), Str("Good"))),
      Http(200, NoAirBody),                                    \* body is no JSON
      Http(200, AirBody(TRUE, FALSE, Num(20), Str("Good"))),   \* found: false
      Http(200, AirBody(TRUE, TRUE, Absent, Str("Good"))),     \* no index value
      Http(200, AirBody(TRUE, TRUE, Str("n/a"), Str("Good"))), \* value no number
      Http(200, AirBody(TRUE, TRUE, Num(0), Str("Excellent"))),
      Http(200, AirBody(TRUE, TRUE, Num(20), Str("Good"))),
      Http(200, AirBody(TRUE, TRUE, Num(35), Absent)),         \* no qualification
      Http(200, AirBody(TRUE, TRUE, Num(120), Str("Very poor"))) }

WeatherOutcomes ==
    { RequestException(NoWeatherBody),
      Http(500, NoWeatherBody),
      Http(200, NoWeatherBody),                                \* body is no JSON
      Http(200, WeatherBody(TRUE, Absent, Str("clear"))),      \* no temperature
      Http(200, WeatherBody(TRUE, Str("n/a"), Str("clear"))),  \* temperature no number
      Http(200, WeatherBody(TRUE, Num(25), Str("clear"))),
      Http(200, WeatherBody(TRUE, Num(-40), Str("snow"))),
      Http(200, WeatherBody(TRUE, Num(30), Absent)) }          \* no condition

\* requests: Response.raise_for_status() raises HTTPError for 4xx and 5xx.
RaiseForStatus(resp) == resp.status >= 400 /\ resp.status < 600

(***************************************************************************)
(* app.py section 3: air quality adapter.                                  *)
(***************************************************************************)
Factor(score, desc) == [score |-> score, desc |-> desc]

\* Variant of get_air_quality_score that describes by the score, not by the
\* qualification of the response.
AirScoreOwnLabel(latitude, longitude, resp) ==
    IF API_KEY /\ resp.kind = "http" /\ ~RaiseForStatus(resp) /\ resp.body.json
       /\ resp.body.found /\ resp.body.value.t = "num"
    THEN Factor(_scale_maqi_to_score(resp.body.value.n),
                "Air: " \o (IF resp.body.value.n <= 50 THEN "Good" ELSE "Poor"))
    ELSE Factor(DEFAULT_SCORE, "Air: " \o DEFAULT_DESCRIPTION)

\* app.py get_air_quality_score(latitude, longitude), resp being what
\* requests.get returns or raises at line 174.
get_air_quality_score(latitude, longitude, resp) ==
    IF ~API_KEY THEN Factor(DEFAULT_SCORE, "Air: Data unavailable (no API key)")
    ELSE IF resp.kind # "http" THEN Factor(DEFAULT_SCORE, "Air: " \o DEFAULT_DESCRIPTION)
    ELSE IF RaiseForStatus(resp) THEN Factor(DEFAULT_SCORE, "Air: " \o DEFAULT_DESCRIPTION)
    ELSE IF ~resp.body.json THEN Factor(DEFAULT_SCORE, "Air: " \o DEFAULT_DESCRIPTION)
    ELSE LET data == resp.body
             idx_value == data.value
         IN  IF data.found /\ idx_value.t # "absent"
             THEN IF ToFloat(idx_value).exc
                  THEN Factor(DEFAULT_SCORE, "Air: " \o DEFAULT_DESCRIPTION)
                  ELSE LET score == _scale_maqi_to_score(ToFloat(idx_value).v)
                           qualification ==
                               CASE data.qualification.t = "str" -> data.qualification.s
                                 [] data.qualification.t = "num" ->
                                        ToString(data.qualification.n)
                                 [] OTHER -> "Unknown"
                       IN  Factor(score, "Air: " \o qualification)
             ELSE Factor(DEFAULT_SCORE, "Air: " \o DEFAULT_DESCRIPTION)

(***************************************************************************)
(* app.py section 4: weather adapter.                                      *)
(***************************************************************************)

\* app.py WeatherService.calculate_weather_rating(data)
calculate_weather_rating(data) ==
    LET temp == data.temperature
    IN  IF temp.t = "absent" THEN Return(DEFAULT_SCORE)
        ELSE IF temp.t = "str" THEN Raise     \* abs(str - float): TypeError
        ELSE Return(WeatherRating(1000 * temp.n))

\* app.py WeatherService.describe_weather(data)
describe_weather(data) ==
    LET temp == data.temperature
    IN  IF data.condition.t = "num" THEN Raise    \* int has no .title()
        ELSE LET condition == IF data.condition.t = "absent" THEN "Unknown"
                              ELSE Title(data.condition.s)
             IN  IF temp.t = "absent" THEN Return("Weather: " \o condition)
                 ELSE IF temp.t = "str" THEN Raise     \* str < int: TypeError
                 ELSE LET desc == IF temp.n < 0 THEN "Freezing"
                                  ELSE IF temp.n < 10 THEN "Cold"
                                  ELSE IF temp.n < 20 THEN "Cool"
                                  ELSE IF temp.n < 28 THEN "Pleasant"
                                  ELSE IF temp.n < 35 THEN "Warm"
                                  ELSE "Hot"
                      IN  Return("Weather: " \o condition \o ", " \o desc
                                 \o " (" \o ToString(temp.n) \o "°C)")

\* Variant of get_weather_score that reuses the air adapter's outcome.
WeatherScoreAfterAir(lat, lon, resp) ==
    IF air.score = DEFAULT_SCORE
    THEN Factor(DEFAULT_SCORE, "Weather: " \o DEFAULT_DESCRIPTION)
    ELSE IF resp.kind = "http" /\ ~RaiseForStatus(resp) /\ resp.body.json
            /\ ~calculate_weather_rating(resp.body).exc /\ ~describe_weather(resp.body).exc
    THEN Factor(calculate_weather_rating(resp.body).v, describe_weather(resp.body).v)
    ELSE Factor(DEFAULT_SCORE, "Weather: " \o DEFAULT_DESCRIPTION)

\* app.py get_weather_score(lat, lon), resp being what requests.get returns
\* or raises inside WeatherService.get_weather_data.
get_weather_score(lat, lon, resp) ==
    IF ~API_KEY THEN Factor(DEFAULT_SCORE, "Weather: API key missing")
    ELSE IF resp.kind # "http" \/ RaiseForStatus(resp) \/ ~resp.body.json
        THEN Factor(DEFAULT_SCORE, "Weather: " \o DEFAULT_DESCRIPTION)
    ELSE LET data == resp.body
             score == calculate_weather_rating(data)
             desc == describe_weather(data)
         IN  IF score.exc \/ desc.exc
             THEN Factor(DEFAULT_SCORE, "Weather: " \o DEFAULT_DESCRIPTION)
             ELSE Factor(score.v, desc.v)

(***************************************************************************)
(* app.py section 5: the composite scorer.                                 *)
(***************************************************************************)

\* Score triples (air, weather, transit) of the model whose weighted sum lies
\* exactly between two tenths and whose binary64 sum
\* air * 0.4 + weather * 0.3 + transit * 0.3 rounds to the upper tenth.
\*   up:    4.45 -> 4.5, 4.15 -> 4.2, 8.65 -> 8.7, 5.95 -> 6.0, 7.55 -> 7.6
\*   down:  6.85 -> 6.8 (5.5, 5.5, 10.0), 6.25 -> 6.2 (10.0, 5.5, 2.0),
\*          7.25 -> 7.2 (6.8, 5.5, 9.6), 4.85 -> 4.8 (6.8, 1.0, 6.1),
\*          5.05 -> 5.0 (1.0, 5.5, 10.0), 2.65 -> 2.6 (1.0, 5.5, 2.0),
\*          2.35 -> 2.3 (1.0, 5.5, 1.0)
TotalTieUp ==
    { <<55, 55, 20>>, <<55, 55, 10>>, <<100, 55, 100>>, <<100, 55, 10>>,
      <<68, 100, 61>> }

\* total = air_score * W["air_quality"] + weather_score * W["weather_rating"]
\*         + transit_score * W["transit_score"], in thousandths.
WeightedSum(air_score, weather_score, transit_score, W) ==
    air_score * W.air_quality + weather_score * W.weather_rating
        + transit_score * W.transit_score

\* Variant of the rounding of the total that cuts the second decimal off.
TruncateTotal(air_score, weather_score, transit_score, W) ==
    WeightedSum(air_score, weather_score, transit_score, W) \div 100

\* round(total, 1), tenths
RoundTotal(air_score, weather_score, transit_score, W) ==
    RoundNearest(WeightedSum(air_score, weather_score, transit_score, W), 100,
                 <<air_score, weather_score, transit_score>> \in TotalTieUp)

Rating(factor, weight) == [score |-> factor.score, desc |-> factor.desc, weight |-> weight]

\* The dictionary calculate_city_quality_score returns (lines 254-261).
CompositeResult(a, w, t, W) ==
    [city_quality_score |-> RoundTotal(a.score, w.score, t.score, W),
     individual_ratings |->
        [air_quality |-> Rating(a, W.air_quality),
         weather_rating |-> Rating(w, W.weather_rating),
         transit_score |-> Rating(t, W.transit_score)]]

NoFactor == Factor(0, "")
NoResult == CompositeResult(NoFactor, NoFactor, NoFactor,
                            [air_quality |-> 0, weather_rating |-> 0, transit_score |-> 0])

(***************************************************************************)
(* The requests of the model.                                              *)
(***************************************************************************)
Arg(text) == [present |-> TRUE, text |-> text]
Missing == [present |-> FALSE, text |-> ""]
Query(lat, lng) == [lat |-> lat, lng |-> lng]

QueryArgs ==
    { Query(Arg("51.045"), Arg("-114.075")),            \* the hub
      Query(Arg("51.05"), Arg("-114.07")),
      Query(Arg("51.09"), Arg("-114.15")),
      Query(Arg("50.93"), Arg("-113.88")),              \* beyond 15 km
      Query(Arg("-51.04500043"), Arg("65.9249988")),    \* near the hub's antipode
      Query(Arg("nan"), Arg("0")),
      Query(Arg("inf"), Arg("0")),
      Query(Arg("abc"), Arg("-114.075")),
      Query(Missing, Arg("-114.075")),
      Query(Arg("51.045"), Missing) }

NoCoord == [lat |-> Fin(""), lon |-> Fin("")]
NoSent == [air |-> 0, weather |-> 0]
NoResponse == [status |-> 0, body |-> NoResult]
NoPrev == [valid |-> FALSE, coord |-> NoCoord, weatherResp |-> NotCalled(NoWeatherBody),
           airResp |-> NotCalled(NoAirBody), result |-> NoResult]

(***************************************************************************)
(* Initial state: app.py is about to be imported.                          *)
(***************************************************************************)
ServiceInit ==
    /\ phase = "load"
    /\ pc = "idle"
    /\ args = Query(Missing, Missing)
    /\ coord = NoCoord
    /\ airResp = NotCalled(NoAirBody)
    /\ weatherResp = NotCalled(NoWeatherBody)
    /\ air = NoFactor
    /\ weather = NoFactor
    /\ transit = NoFactor
    /\ sent = NoSent
    /\ response = NoResponse
    /\ prev = NoPrev
    /\ order = << >>

NoBefore == [x |-> 0, fn |-> "none", score |-> 0]

HarnessIdle ==
    /\ raw = [kind |-> "none", x |-> 0]
    /\ scaled = [fn |-> "none", score |-> 0]
    /\ before = NoBefore

\* No fetch function is being called.
NoFetch == [fn |-> "none"]

\* app.py lines 91-105: a collection of the connected database, a bag of
\* documents kept in the order of insertion; none is TRUE for the value None
\* that both names get when the connection fails.
Connected(docs) == [none |-> FALSE, docs |-> docs]
None == [none |-> TRUE, docs |-> << >>]

\* The worker threads that handle register requests.
Threads == {1, 2}
NoPayload == [kind |-> "none", username |-> Absent, password |-> Absent]
NoRegistration == [pc |-> "idle", method |-> "", data |-> NoPayload, status |-> 0]

\* The store is connected and empty and no register request is being handled.
StoreIdle ==
    /\ collection = Connected(<< >>)
    /\ usersCollection = Connected(<< >>)
    /\ registering = [t \in Threads |-> NoRegistration]

Init ==
    /\ ServiceInit
    /\ WEIGHTS \in WeightConfigs
    /\ API_KEY \in BOOLEAN
    /\ HarnessIdle
    /\ fetch = NoFetch
    /\ StoreIdle

\* Variant of the import that skips the check of the weights.
LoadUnchecked ==
    /\ phase = "load"
    /\ phase' = "serving"
    /\ UNCHANGED << WEIGHTS, API_KEY, pc, args, coord, airResp, weatherResp,
                    air, weather, transit, sent, response, prev, harnessVars, order, fetch, storeVars >>

\* Import of app.py, lines 29-45: the weights are checked once, a bad sum
\* raises ValueError and no application object exists afterwards.
Load ==
    /\ phase = "load"
    /\ phase' = IF WeightsInvalid(WEIGHTS) THEN "failed" ELSE "serving"
    /\ UNCHANGED << WEIGHTS, API_KEY, pc, args, coord, airResp, weatherResp,
                    air, weather, transit, sent, response, prev, harnessVars, order, fetch, storeVars >>

\* Variant of the route that validates the coordinate only after the
\* upstream requests have gone out.
city_quality_validating_late ==
    /\ phase = "serving"
    /\ pc = "idle"
    /\ \E q \in QueryArgs :
        LET lat == ParseFloat(q.lat)
            lon == ParseFloat(q.lng)
        IN  /\ args' = q
            /\ IF lat.exc \/ lon.exc
               THEN /\ response' = [status |-> 400, body |-> NoResult]
                    /\ pc' = "idle"
                    /\ coord' = NoCoord
                    /\ sent' = [air |-> 1, weather |-> 1]
               ELSE /\ response' = NoResponse
                    /\ pc' = "air"
                    /\ coord' = [lat |-> lat.v, lon |-> lon.v]
                    /\ sent' = NoSent
    /\ airResp' = NotCalled(NoAirBody)
    /\ weatherResp' = NotCalled(NoWeatherBody)
    /\ air' = NoFactor
    /\ weather' = NoFactor
    /\ transit' = NoFactor
    /\ UNCHANGED << phase, WEIGHTS, API_KEY, prev, harnessVars, order, fetch, storeVars >>

\* GET /api/city-quality, lines 426-435: parse the coordinate; answer 400 on
\* TypeError / ValueError, otherwise enter calculate_city_quality_score.
city_quality ==
    /\ phase = "serving"
    /\ pc = "idle"
    /\ \E q \in QueryArgs :
        LET lat == ParseFloat(q.lat)
            lon == ParseFloat(q.lng)
        IN  /\ args' = q
            /\ IF lat.exc \/ lon.exc
               THEN /\ response' = [status |-> 400, body |-> NoResult]
                    /\ pc' = "idle"
                    /\ coord' = NoCoord
               ELSE /\ response' = NoResponse
                    /\ pc' = "air"
                    /\ coord' = [lat |-> lat.v, lon |-> lon.v]
    /\ airResp' = NotCalled(NoAirBody)
    /\ weatherResp' = NotCalled(NoWeatherBody)
    /\ air' = NoFactor
    /\ weather' = NoFactor
    /\ transit' = NoFactor
    /\ sent' = NoSent
    /\ UNCHANGED << phase, WEIGHTS, API_KEY, prev, harnessVars, order, fetch, storeVars >>

\* Variant of the air step that sends the request a second time when the
\* first one failed.
CallAirRetrying ==
    /\ pc = "air"
    /\ IF API_KEY
       THEN \E r \in AirOutcomes :
                /\ airResp' = r
                /\ sent' = [sent EXCEPT !.air =
                               IF r.kind = "error" \/ (r.kind = "http" /\ RaiseForStatus(r))
                               THEN @ + 2 ELSE @ + 1]
                /\ air' = get_air_quality_score(coord.lat, coord.lon, r)
       ELSE /\ airResp' = NotCalled(NoAirBody)
            /\ sent' = sent
            /\ air' = get_air_quality_score(coord.lat, coord.lon, NotCalled(NoAirBody))
    /\ pc' = "weather"
    /\ UNCHANGED << phase, WEIGHTS, API_KEY, args, coord, weatherResp, weather,
                    transit, response, prev, harnessVars, order, fetch, storeVars >>

\* Line 242: air_score, air_desc = get_air_quality_score(lat, lon).  With a
\* key the adapter sends one request and the endpoint answers anything.
CallAir ==
    /\ pc = "air"
    /\ IF API_KEY
       THEN \E r \in AirOutcomes :
                /\ airResp' = r
                /\ sent' = [sent EXCEPT !.air = @ + 1]
                /\ air' = get_air_quality_score(coord.lat, coord.lon, r)
       ELSE /\ airResp' = NotCalled(NoAirBody)
            /\ sent' = sent
            /\ air' = get_air_quality_score(coord.lat, coord.lon, NotCalled(NoAirBody))
    /\ pc' = "weather"
    /\ UNCHANGED << phase, WEIGHTS, API_KEY, args, coord, weatherResp, weather,
                    transit, response, prev, harnessVars, order, fetch, storeVars >>

\* Line 243: weather_score, weather_desc = get_weather_score(lat, lon).
CallWeather ==
    /\ pc = "weather"
    /\ IF API_KEY
       THEN \E r \in WeatherOutcomes :
                /\ weatherResp' = r
                /\ sent' = [sent EXCEPT !.weather = @ + 1]
                /\ weather' = get_weather_score(coord.lat, coord.lon, r)
       ELSE /\ weatherResp' = NotCalled(NoWeatherBody)
            /\ sent' = sent
            /\ weather' = get_weather_score(coord.lat, coord.lon, NotCalled(NoWeatherBody))
    /\ pc' = "transit"
    /\ UNCHANGED << phase, WEIGHTS, API_KEY, args, coord, airResp, air,
                    transit, response, prev, harnessVars, order, fetch, storeVars >>

\* Line 244: transit_score, transit_desc = get_transit_score(lat, lon).  An
\* exception of get_transit_score is caught nowhere: it leaves the scorer and
\* the route, and Flask answers 500.
CallTransit ==
    /\ pc = "transit"
    /\ LET t == get_transit_score(coord.lat, coord.lon)
       IN  IF t.exc
           THEN /\ transit' = NoFactor
                /\ response' = [status |-> 500, body |-> NoResult]
                /\ pc' = "idle"
           ELSE /\ transit' = t.v
                /\ response' = response
                /\ pc' = "combine"
    /\ UNCHANGED << phase, WEIGHTS, API_KEY, args, coord, airResp, weatherResp,
                    air, weather, sent, prev, harnessVars, order, fetch, storeVars >>

\* Lines 247-261 and 436-437: the weighted total, the result, the response.
Combine ==
    /\ pc = "combine"
    /\ LET result == CompositeResult(air, weather, transit, WEIGHTS)
       IN  /\ response' = [status |-> 200, body |-> result]
           /\ prev' = [valid |-> TRUE, coord |-> coord, weatherResp |-> weatherResp,
                       airResp |-> airResp, result |-> result]
    /\ pc' = "idle"
    /\ UNCHANGED << phase, WEIGHTS, API_KEY, args, coord, airResp, weatherResp,
                    air, weather, transit, sent, harnessVars, order, fetch, storeVars >>

Next == Load \/ city_quality \/ CallAir \/ CallWeather \/ CallTransit \/ Combine

Spec == Init /\ [][Next]_vars

(***************************************************************************)
(* The scorer with its three adapter calls (lines 242-244) taken in any    *)
(* order and overlapping in time, as parallel tasks would run them: each   *)
(* adapter is started, and returns later; the total is computed once all   *)
(* three have returned.  prev remembers an earlier computation, the order  *)
(* in which its adapters returned, and whether a request was completed     *)
(* since.                                                                  *)
(***************************************************************************)
Adapters == {"air_quality", "weather_rating", "transit_score"}
SourceOrder == << "air_quality", "weather_rating", "transit_score" >>
NoOrder == [started |-> {}, finished |-> << >>]

Finished(name) == \E i \in 1..Len(order.finished) : order.finished[i] = name
Running(name) == pc = "adapters" /\ name \in order.started /\ ~Finished(name)

AnyOrderQueries ==
    { Query(Arg("51.045"), Arg("-114.075")),
      Query(Arg("51.09"), Arg("-114.15")),
      Query(Arg("50.93"), Arg("-113.88")),
      Query(Arg("-51.04500043"), Arg("65.9249988")),
      Query(Arg("abc"), Arg("-114.075")) }

AnyOrderAirOutcomes ==
    { RequestException(NoAirBody),
      Http(500, NoAirBody),
      Http(200, AirBody(TRUE, TRUE, Absent, Str("Good"))),
      Http(200, AirBody(TRUE, TRUE, Num(20), Str("Good"))),
      Http(200, AirBody(TRUE, TRUE, Num(120), Str("Very poor"))) }

AnyOrderWeatherOutcomes ==
    { RequestException(NoWeatherBody),
      Http(200, WeatherBody(TRUE, Absent, Str("clear"))),
      Http(200, WeatherBody(TRUE, Num(25), Str("clear"))),
      Http(200, WeatherBody(TRUE, Num(-40), Str("snow"))) }

\* The route, lines 426-435, entering a scorer that runs its adapters in
\* any order.
Accept ==
    /\ phase = "serving"
    /\ pc = "idle"
    /\ \E q \in AnyOrderQueries :
        LET lat == ParseFloat(q.lat)
            lon == ParseFloat(q.lng)
        IN  /\ args' = q
            /\ IF lat.exc \/ lon.exc
               THEN /\ response' = [status |-> 400, body |-> NoResult]
                    /\ pc' = "idle"
                    /\ coord' = NoCoord
               ELSE /\ response' = NoResponse
                    /\ pc' = "adapters"
                    /\ coord' = [lat |-> lat.v, lon |-> lon.v]
    /\ airResp' = NotCalled(NoAirBody)
    /\ weatherResp' = NotCalled(NoWeatherBody)
    /\ air' = NoFactor
    /\ weather' = NoFactor
    /\ transit' = NoFactor
    /\ sent' = NoSent
    /\ order' = NoOrder
    /\ UNCHANGED << phase, WEIGHTS, API_KEY, prev, harnessVars, fetch, storeVars >>

\* An adapter is called: with a key the air and the weather adapter send
\* their request (lines 174 and 196).
Start(name) ==
    /\ pc = "adapters"
    /\ name \notin order.started
    /\ order' = [order EXCEPT !.started = @ \cup {name}]
    /\ sent' = IF ~API_KEY THEN sent
               ELSE IF name = "air_quality" THEN [sent EXCEPT !.air = @ + 1]
               ELSE IF name = "weather_rating" THEN [sent EXCEPT !.weather = @ + 1]
               ELSE sent
    /\ UNCHANGED << phase, WEIGHTS, API_KEY, pc, args, coord, airResp, weatherResp,
                    air, weather, transit, response, prev, harnessVars, fetch, storeVars >>

\* get_air_quality_score returns (line 242).
ReturnAir ==
    /\ Running("air_quality")
    /\ IF API_KEY
       THEN \E r \in AnyOrderAirOutcomes :
                /\ airResp' = r
                /\ air' = get_air_quality_score(coord.lat, coord.lon, r)
       ELSE /\ airResp' = NotCalled(NoAirBody)
            /\ air' = get_air_quality_score(coord.lat, coord.lon, NotCalled(NoAirBody))
    /\ order' = [order EXCEPT !.finished = Append(@, "air_quality")]
    /\ UNCHANGED << phase, WEIGHTS, API_KEY, pc, args, coord, weatherResp, weather,
                    transit, sent, response, prev, harnessVars, fetch, storeVars >>

\* get_weather_score returns (line 243).
ReturnWeather ==
    /\ Running("weather_rating")
    /\ IF API_KEY
       THEN \E r \in AnyOrderWeatherOutcomes :
                /\ weatherResp' = r
                /\ weather' = get_weather_score(coord.lat, coord.lon, r)
       ELSE /\ weatherResp' = NotCalled(NoWeatherBody)
            /\ weather' = get_weather_score(coord.lat, coord.lon, NotCalled(NoWeatherBody))
    /\ order' = [order EXCEPT !.finished = Append(@, "weather_rating")]
    /\ UNCHANGED << phase, WEIGHTS, API_KEY, pc, args, coord, airResp, air,
                    transit, sent, response, prev, harnessVars, fetch, storeVars >>

\* get_transit_score returns or raises (line 244); the exception ends the
\* request with a 500.
ReturnTransit ==
    /\ Running("transit_score")
    /\ LET t == get_transit_score(coord.lat, coord.lon)
       IN  IF t.exc
           THEN /\ transit' = NoFactor
                /\ response' = [status |-> 500, body |-> NoResult]
                /\ pc' = "idle"
           ELSE /\ transit' = t.v
                /\ response' = response
                /\ pc' = pc
    /\ order' = [order EXCEPT !.finished = Append(@, "transit_score")]
    /\ UNCHANGED << phase, WEIGHTS, API_KEY, args, coord, airResp, weatherResp,
                    air, weather, sent, prev, harnessVars, fetch, storeVars >>

\* Lines 247-261 and 436-437, once the three adapters have returned.
Gather ==
    /\ pc = "adapters"
    /\ Len(order.finished) = 3
    /\ LET result == CompositeResult(air, weather, transit, WEIGHTS)
       IN  /\ response' = [status |-> 200, body |-> result]
           /\ \/ prev' = [valid |-> TRUE, coord |-> coord, weatherResp |-> weatherResp,
                          airResp |-> airResp, result |-> result,
                          order |-> order.finished, age |-> 0]
              \/ /\ prev.valid
                 /\ prev' = [prev EXCEPT !.age = 1]
    /\ pc' = "idle"
    /\ UNCHANGED << phase, WEIGHTS, API_KEY, args, coord, airResp, weatherResp,
                    air, weather, transit, sent, harnessVars, order, fetch, storeVars >>

NextAnyOrder ==
    \/ Load
    \/ Accept
    \/ \E name \in Adapters : Start(name)
    \/ ReturnAir
    \/ ReturnWeather
    \/ ReturnTransit
    \/ Gather

SpecAnyOrder == Init /\ [][NextAnyOrder]_vars

(***************************************************************************)
(* Scaling harness: each scaling function of the repository applied to a   *)
(* raw measurement, as the __main__ blocks and the adapters call them.     *)
(* Scores are recorded in hundredths, weather.py rounding to 2 decimals.   *)
(***************************************************************************)
DistMargin == 20
\* How many of the temperatures 25 +/- (0.325 + 0.65 k), whose rating lies
\* between two tenths, are measured on each side of 25 degrees.
TieTemps == 21

\* MAQI in whole units, distances every 250 m, temperatures in thousandths of
\* a degree: every whole degree, the ends -33.5 and 83.5 of the range above
\* the floor, and the temperatures between two tenths.
Temperatures ==
    { 1000 * t : t \in (-40 - TempMargin)..(90 + TempMargin) }
        \cup { -33500, 83500 }
        \cup { 25000 + s * (325 + 650 * k) : s \in {-1, 1}, k \in 0..(TieTemps - 1) }

RawInputs ==
    [kind : {"maqi"}, x : (0 - MaqiMargin)..(100 + MaqiMargin)]
        \cup [kind : {"temp"}, x : Temperatures]
        \cup [kind : {"dist"}, x : {250 * k : k \in 0..(60 + DistMargin)}]

InitScale ==
    /\ ServiceInit
    /\ WEIGHTS = SourceWeights
    /\ API_KEY = TRUE
    /\ raw \in RawInputs
    /\ scaled = [fn |-> "none", score |-> 0]
    /\ before = NoBefore
    /\ fetch = NoFetch
    /\ StoreIdle

Apply(kind, fn, score) ==
    /\ raw.kind = kind
    /\ scaled.fn = "none"
    /\ scaled' = [fn |-> fn, score |-> score]
    /\ UNCHANGED << raw, before, serviceVars, fetch, storeVars >>

ScaleAirApp == Apply("maqi", "app._scale_maqi_to_score", 10 * _scale_maqi_to_score(raw.x))

ScaleAirFetcher ==
    Apply("maqi", "air_api_fetcher._scale_maqi_to_score",
          10 * fetcher_scale_maqi_to_score(raw.x))

RateWeatherApp ==
    Apply("temp", "app.calculate_weather_rating", 10 * WeatherRating(raw.x))

RateWeatherPy ==
    Apply("temp", "weather.calculate_weather_rating", WeatherPyRating(raw.x))

ScaleTransit ==
    Apply("dist", "transit_score.get_transit_score", 10 * TransitScale(Metres(raw.x)))

\* The next measurement of the same kind arrives (the next request of the
\* service, the next test case of a __main__ block): the functions are
\* applied again, the application before it is remembered.
NextMeasurement ==
    /\ scaled.fn # "none"
    /\ before = NoBefore
    /\ before' = [x |-> raw.x, fn |-> scaled.fn, score |-> scaled.score]
    /\ raw' \in { r \in RawInputs : r.kind = raw.kind }
    /\ scaled' = [fn |-> "none", score |-> 0]
    /\ UNCHANGED << serviceVars, fetch, storeVars >>

NextScale ==
    \/ ScaleAirApp \/ ScaleAirFetcher \/ RateWeatherApp \/ RateWeatherPy \/ ScaleTransit
    \/ NextMeasurement

SpecScale == InitScale /\ [][NextScale]_vars

(***************************************************************************)
(* get_transit_score on the distances of a grid: every 20 m from the hub   *)
(* to 20 km (at these the distance is never halfway between two tenths of  *)
(* a kilometre), and the nan distance of a nan coordinate.                 *)
(***************************************************************************)
DistSteps == 1000

TransitInputs ==
    [kind : {"dist"}, x : {20 * k : k \in 0..DistSteps}] \cup {[kind |-> "nan", x |-> 0]}

DistanceOf(input) == IF input.kind = "nan" THEN NaNDistance ELSE Metres(input.x)

InitTransit ==
    /\ ServiceInit
    /\ WEIGHTS = SourceWeights
    /\ API_KEY = TRUE
    /\ raw \in TransitInputs
    /\ scaled = [fn |-> "none", score |-> 0]
    /\ before = NoBefore
    /\ fetch = NoFetch
    /\ StoreIdle

\* transit_score.py get_transit_score lines 50-76, after the distance.
ScoreDistance ==
    /\ transit = NoFactor
    /\ LET score == TransitScale(DistanceOf(raw))
       IN  transit' = Factor(score, TransitDescription(score, DistanceOf(raw)))
    /\ UNCHANGED << phase, WEIGHTS, API_KEY, pc, args, coord, airResp, weatherResp,
                    air, weather, sent, response, prev, harnessVars, order, fetch, storeVars >>

NextTransit == ScoreDistance

SpecTransit == InitTransit /\ [][NextTransit]_vars

(***************************************************************************)
(* The fetch functions of the repository, one call at a time: the two      *)
(* adapters of app.py, get_current_air of air_api_fetcher.py and           *)
(* get_current_noise of noise_api_fetcher.py with their retry loops, and   *)
(* get_weather_with_rating of weather.py.  A request is                    *)
(* sent and the upstream answers, fails, or stays silent; time passes in   *)
(* seconds while the call waits.  requests.get(..., timeout=10) raises     *)
(* Timeout, a RequestException, once the upstream has been silent for 10   *)
(* seconds; requests.get without timeout waits for as long as the upstream *)
(* stays silent.  Response.json() raises requests' JSONDecodeError, a      *)
(* RequestException, on a body that is no JSON.                            *)
(* Scores of the results are in tenths, those of weather.py in hundredths. *)
(***************************************************************************)
MAX_RETRIES == 3
INITIAL_BACKOFF_SECONDS == 1
DEFAULT_MEERSENS_INDEX == 50
FETCHER_DEFAULT_DESCRIPTION == "Moderate (Data unavailable)"

\* timeout=10 of the calls in app.py and air_api_fetcher.py; weather.py
\* passes none.
RequestTimeout == 10
NoTimeout == 0

\* How many seconds a call without timeout is followed while it waits.
MaxWait == 12

FetchFunctions ==
    { "app.get_air_quality_score", "app.get_weather_score",
      "air_api_fetcher.get_current_air", "weather.get_weather_with_rating",
      "noise_api_fetcher.get_current_noise" }

AirFetch(fn) == fn \in {"app.get_air_quality_score", "air_api_fetcher.get_current_air"}

\* The functions that fetch through a _fetch_data with a retry loop.
RetryingFunctions ==
    {"air_api_fetcher.get_current_air", "noise_api_fetcher.get_current_noise"}

\* noise_api_fetcher.py: DEFAULT_NOISE_LEVEL, DEFAULT_DESCRIPTION, and the
\* body get_current_noise reads: found and pollutants.noise.avg_value.
DEFAULT_NOISE_LEVEL == 50
NOISE_DEFAULT_DESCRIPTION == "Moderate (Default Baseline)"
NoiseBody(found, avg_value) == AirBody(TRUE, found, avg_value, Absent)

TimeoutOf(fn) == IF fn = "weather.get_weather_with_rating" THEN NoTimeout ELSE RequestTimeout

\* weather.py falls back to a key written in its source (line 18); the other
\* functions return early without MEERSENS_API_KEY.
NeedsKey(fn) == fn # "weather.get_weather_with_rating"

\* The upstream accepted the request and sends nothing.
Stall(body) == [kind |-> "stall", status |-> 0, body |-> body]

FetchOutcomes(fn) ==
    IF AirFetch(fn)
    THEN { Stall(NoAirBody),
           RequestException(NoAirBody),
           Http(500, NoAirBody),
           Http(401, NoAirBody),
           Http(200, NoAirBody),
           Http(200, AirBody(TRUE, FALSE, Num(20), Str("Good"))),
           Http(200, AirBody(TRUE, TRUE, Num(20), Str("Good"))),
           Http(200, AirBody(TRUE, TRUE, Num(120), Absent)) }
    ELSE IF fn = "noise_api_fetcher.get_current_noise"
    THEN { Stall(NoAirBody),
           RequestException(NoAirBody),
           Http(500, NoAirBody),
           Http(401, NoAirBody),
           Http(200, NoAirBody),
           Http(200, NoiseBody(FALSE, Num(44))),
           Http(200, NoiseBody(TRUE, Num(44))),
           Http(200, NoiseBody(TRUE, Num(120))) }
    ELSE { Stall(NoWeatherBody),
           RequestException(NoWeatherBody),
           Http(500, NoWeatherBody),
           Http(200, WeatherBody(TRUE, Absent, Str("clear"))),
           Http(200, WeatherBody(TRUE, Num(25), Str("clear"))),
           Http(200, WeatherBody(TRUE, Num(-40), Str("snow"))) }

\* What a fetch function hands to its caller.
Returned(score, index, desc) ==
    [kind |-> "returned", score |-> score, index |-> index, desc |-> desc]
Raised == [kind |-> "raised", score |-> 0, index |-> 0, desc |-> ""]
Pending == [kind |-> "pending", score |-> 0, index |-> 0, desc |-> ""]
FromFactor(f) == Returned(f.score, 0, f.desc)

\* str(score) of a score with one decimal
FormatTenths(score) == ToString(score \div 10) \o "." \o ToString(score % 10)

\* air_api_fetcher.py get_current_air lines 131-157, air_data being the body
\* _fetch_data returned (has_data) or None.
get_current_air(has_data, air_data) ==
    LET default == Returned(DEFAULT_SCORE, DEFAULT_MEERSENS_INDEX,
                            "Data Unavailable - " \o FETCHER_DEFAULT_DESCRIPTION)
        raw_maqi_value == air_data.value
    IN  IF ~has_data \/ ~air_data.found THEN default
        ELSE IF raw_maqi_value.t = "absent" THEN default
        ELSE IF ToFloat(raw_maqi_value).exc THEN default
        ELSE LET maqi_float == ToFloat(raw_maqi_value).v
                 score == fetcher_scale_maqi_to_score(maqi_float)
                 qualification ==
                     CASE air_data.qualification.t = "str" -> air_data.qualification.s
                       [] air_data.qualification.t = "num" ->
                              ToString(air_data.qualification.n)
                       [] OTHER -> "None"
             IN  Returned(score, maqi_float,
                          qualification \o " (MAQI: " \o FormatTenths(score) \o ")")

\* noise_api_fetcher.py _classify_noise
_classify_noise(level) ==
    IF level < 30 THEN "Very Quiet (e.g., quiet library, bedroom at night)"
    ELSE IF 30 <= level /\ level < 50 THEN "Quiet (e.g., quiet office, suburban street)"
    ELSE IF 50 <= level /\ level < 70
        THEN "Moderate (e.g., normal conversation, busy restaurant)"
    ELSE IF 70 <= level /\ level < 85 THEN "Loud (e.g., heavy traffic, vacuum cleaner)"
    ELSE "Very Loud (Potential hearing damage with prolonged exposure)"

\* Whole dB values between 20 and 100 whose score (980 - 9 dB) / 8 tenths
\* lies halfway between two tenths and whose binary64 score prints to the
\* upper one with f'{score:.1f}'; at 48, 64, 80, 88 and 96 it prints to the
\* lower one.
NoiseTieUp == {24, 32, 40, 56, 72}

\* noise_api_fetcher.py _scale_noise_to_score: 10.0 up to 20 dB, 1.0 from
\* 100 dB, between them float(f'{score:.1f}') of slope * dB + intercept with
\* slope = (1.0 - 10.0) / (100 - 20) and intercept = 10.0 - slope * 20.
_scale_noise_to_score(dB) ==
    IF dB <= 20 THEN 100
    ELSE IF dB >= 100 THEN 10
    ELSE RoundNearest(980 - 9 * dB, 8, dB \in NoiseTieUp)

\* noise_api_fetcher.py get_current_noise lines 117-147, noise_data being
\* the body _fetch_data returned (has_data) or None.
get_current_noise(has_data, noise_data) ==
    LET default == Returned(55, DEFAULT_NOISE_LEVEL,
                            "Data Unavailable - " \o NOISE_DEFAULT_DESCRIPTION)
        noise_level_raw == noise_data.value
    IN  IF ~has_data \/ ~noise_data.found THEN default
        ELSE IF noise_level_raw.t = "absent" THEN default
        ELSE IF ToFloat(noise_level_raw).exc THEN default
        ELSE LET noise_level == ToFloat(noise_level_raw).v
             IN  Returned(_scale_noise_to_score(noise_level), noise_level,
                          _classify_noise(noise_level))

\* weather.py get_weather_with_rating on what requests.get returned or
\* raised: get_current_weather turns a RequestException into Exception,
\* calculate_weather_rating raises ValueError without a temperature; nothing
\* catches either.
get_weather_with_rating(resp) ==
    IF resp.kind # "http" \/ RaiseForStatus(resp) \/ ~resp.body.json THEN Raised
    ELSE LET temperature == resp.body.temperature
         IN  IF temperature.t # "num" THEN Raised
             ELSE LET temp_desc == IF temperature.n < 0 THEN "freezing"
                                   ELSE IF temperature.n < 10 THEN "cold"
                                   ELSE IF temperature.n < 20 THEN "cool"
                                   ELSE IF temperature.n < 28 THEN "pleasant"
                                   ELSE IF temperature.n < 35 THEN "warm"
                                   ELSE "hot"
                      condition == IF resp.body.condition.t = "str"
                                   THEN "It is " \o resp.body.condition.s \o " "
                                   ELSE ""
                  IN  Returned(WeatherPyRating(1000 * temperature.n), 0,
                               condition \o "and " \o temp_desc \o " ("
                                   \o ToString(temperature.n) \o "°C).")

InitFetch ==
    /\ ServiceInit
    /\ HarnessIdle
    /\ StoreIdle
    /\ WEIGHTS = SourceWeights
    /\ API_KEY \in BOOLEAN
    /\ \E fn \in FetchFunctions :
          fetch = [fn |-> fn, pc |-> "request", timeout |-> TimeoutOf(fn),
                   attempt |-> 0, backoff_time |-> INITIAL_BACKOFF_SECONDS,
                   slept |-> << >>, requests |-> 0, waited |-> 0,
                   upstream |-> NotCalled(NoAirBody), fetched |-> "pending",
                   result |-> Pending]

Done(result) == [fetch EXCEPT !.pc = "done", !.result = result]

\* _fetch_data returns to get_current_air or get_current_noise: the decoded
\* body (has_data), or None; the function makes its result of it.
FetchReturns(has_data, data) ==
    [fetch EXCEPT !.pc = "done",
                  !.fetched = IF has_data THEN "data" ELSE "none",
                  !.result = IF fetch.fn = "noise_api_fetcher.get_current_noise"
                             THEN get_current_noise(has_data, data)
                             ELSE get_current_air(has_data, data)]

\* Variant of the end of an attempt that also sleeps after the last one.
AttemptFailedSleepingLast ==
    IF fetch.attempt < MAX_RETRIES - 1
    THEN [fetch EXCEPT !.pc = "sleep"]
    ELSE [FetchReturns(FALSE, NoAirBody) EXCEPT !.slept = Append(@, fetch.backoff_time)]

\* air_api_fetcher.py _fetch_data lines 109-117, noise_api_fetcher.py
\* _fetch_data lines 107-115: an attempt has failed.  Before the last attempt
\* the loop sleeps; after it, it breaks, _fetch_data returns None and the
\* function its default.
AttemptFailed ==
    IF fetch.attempt < MAX_RETRIES - 1
    THEN [fetch EXCEPT !.pc = "sleep"]
    ELSE FetchReturns(FALSE, NoAirBody)

\* Variant of Settle whose retry loop treats HTTP 401 like any other failed
\* attempt.
SettleRetryingOn401(resp) ==
    CASE fetch.fn = "app.get_air_quality_score" ->
             Done(FromFactor(get_air_quality_score(CALGARY_DOWNTOWN_LAT,
                                                   CALGARY_DOWNTOWN_LNG, resp)))
      [] fetch.fn = "app.get_weather_score" ->
             Done(FromFactor(get_weather_score(CALGARY_DOWNTOWN_LAT,
                                               CALGARY_DOWNTOWN_LNG, resp)))
      [] fetch.fn = "weather.get_weather_with_rating" ->
             Done(get_weather_with_rating(resp))
      [] fetch.fn \in RetryingFunctions ->
             IF resp.kind # "http" THEN AttemptFailed
             ELSE IF resp.status = 200
                  THEN IF resp.body.json THEN FetchReturns(TRUE, resp.body)
                       ELSE AttemptFailed
             ELSE AttemptFailed

\* The call has got resp from requests.get: a response, or an exception.
\* In _fetch_data, lines 86-110 of air_api_fetcher.py and 91-108 of
\* noise_api_fetcher.py: HTTP 200 returns response.json(), whose
\* JSONDecodeError is caught with the network errors; HTTP 401 breaks.
Settle(resp) ==
    CASE fetch.fn = "app.get_air_quality_score" ->
             Done(FromFactor(get_air_quality_score(CALGARY_DOWNTOWN_LAT,
                                                   CALGARY_DOWNTOWN_LNG, resp)))
      [] fetch.fn = "app.get_weather_score" ->
             Done(FromFactor(get_weather_score(CALGARY_DOWNTOWN_LAT,
                                               CALGARY_DOWNTOWN_LNG, resp)))
      [] fetch.fn = "weather.get_weather_with_rating" ->
             Done(get_weather_with_rating(resp))
      [] fetch.fn \in RetryingFunctions ->
             IF resp.kind # "http" THEN AttemptFailed
             ELSE IF resp.status = 200
                  THEN IF resp.body.json THEN FetchReturns(TRUE, resp.body)
                       ELSE AttemptFailed
             ELSE IF resp.status = 401 THEN FetchReturns(FALSE, NoAirBody)
             ELSE AttemptFailed

\* The function is entered (first attempt) or the loop starts its next
\* attempt: without a key the functions that need one return at once,
\* otherwise the request goes out and the upstream decides what it does.
Request ==
    /\ fetch.fn # "none"
    /\ fetch.pc = "request"
    /\ IF NeedsKey(fetch.fn) /\ ~API_KEY
       THEN fetch' =
              CASE fetch.fn = "app.get_air_quality_score" ->
                       Done(FromFactor(get_air_quality_score(
                           CALGARY_DOWNTOWN_LAT, CALGARY_DOWNTOWN_LNG, NotCalled(NoAirBody))))
                [] fetch.fn = "app.get_weather_score" ->
                       Done(FromFactor(get_weather_score(
                           CALGARY_DOWNTOWN_LAT, CALGARY_DOWNTOWN_LNG,
                           NotCalled(NoWeatherBody))))
                [] fetch.fn \in RetryingFunctions ->
                       FetchReturns(FALSE, NoAirBody)
       ELSE \E r \in FetchOutcomes(fetch.fn) :
              fetch' = [fetch EXCEPT !.pc = "waiting", !.upstream = r,
                                     !.requests = @ + 1, !.waited = 0]
    /\ UNCHANGED << serviceVars, harnessVars, storeVars >>

\* requests.get returns the response or raises the connection error.
Answer ==
    /\ fetch.fn # "none"
    /\ fetch.pc = "waiting"
    /\ fetch.upstream.kind # "stall"
    /\ fetch' = Settle(fetch.upstream)
    /\ UNCHANGED << serviceVars, harnessVars, storeVars >>

\* A second passes while the upstream is silent.
Tick ==
    /\ fetch.fn # "none"
    /\ fetch.pc = "waiting"
    /\ fetch.upstream.kind = "stall"
    /\ IF fetch.timeout = NoTimeout THEN fetch.waited < MaxWait
       ELSE fetch.waited < fetch.timeout
    /\ fetch' = [fetch EXCEPT !.waited = @ + 1]
    /\ UNCHANGED << serviceVars, harnessVars, storeVars >>

\* The timeout of the call expires: requests.get raises Timeout.
Timeout ==
    /\ fetch.fn # "none"
    /\ fetch.pc = "waiting"
    /\ fetch.upstream.kind = "stall"
    /\ fetch.timeout # NoTimeout
    /\ fetch.waited = fetch.timeout
    /\ fetch' = Settle(RequestException(fetch.upstream.body))
    /\ UNCHANGED << serviceVars, harnessVars, storeVars >>

\* air_api_fetcher.py _fetch_data lines 111-112:
\* sleep(backoff_time); backoff_time *= 2, then the next attempt.
Sleep ==
    /\ fetch.fn # "none"
    /\ fetch.pc = "sleep"
    /\ fetch' = [fetch EXCEPT !.pc = "request",
                              !.slept = Append(@, fetch.backoff_time),
                              !.backoff_time = @ * 2,
                              !.attempt = @ + 1]
    /\ UNCHANGED << serviceVars, harnessVars, storeVars >>

NextFetch == Request \/ Answer \/ Tick \/ Timeout \/ Sleep

SpecFetch == InitFetch /\ [][NextFetch]_vars

\* Python runs the function to its end: a step that can be taken is taken,
\* sleep returns, and a second passes.
SpecFetchFair == SpecFetch /\ WF_vars(NextFetch)

(***************************************************************************)
(* The store: the routes of app.py that insert into the collection         *)
(* db["reports"], and the register route with the collection db["users"].  *)
(* A document is a record of the fields the routes write, Absent for a     *)
(* field the document does not have.                                       *)
(***************************************************************************)
MaxReports == 3
MaxUsers == 3

REPORT_CATEGORIES == {"disaster", "infrastructure", "safety"}

\* reports_schema.py REPORT_SCHEMA, in the order of its items.
REPORT_SCHEMA ==
    << [field |-> "title", type |-> "str", required |-> TRUE],
       [field |-> "category", type |-> "str", required |-> TRUE],
       [field |-> "description", type |-> "str", required |-> TRUE],
       [field |-> "geolocation", type |-> "dict", required |-> TRUE],
       [field |-> "userid", type |-> "str", required |-> TRUE],
       [field |-> "timestamp", type |-> "int", required |-> TRUE],
       [field |-> "datestamp", type |-> "str", required |-> TRUE],
       [field |-> "imagelink", type |-> "str", required |-> FALSE] >>

\* A nested object with two coordinates: geolocation {lat, lng} and
\* centroid {lat, lon}.
Geo(lat, lng) == [t |-> "dict", lat |-> lat, lng |-> lng]
NoGeo == [t |-> "absent", lat |-> Absent, lng |-> Absent]
Centroid(lat, lon) == [t |-> "dict", lat |-> lat, lon |-> lon]
NoCentroid == [t |-> "absent", lat |-> Absent, lon |-> Absent]

EmptyDoc ==
    [type |-> Absent, title |-> Absent, category |-> Absent, description |-> Absent,
     geolocation |-> NoGeo, userid |-> Absent, timestamp |-> Absent,
     datestamp |-> Absent, imagelink |-> Absent, image |-> Absent,
     createdAt |-> Absent, latitude |-> Absent, longitude |-> Absent,
     name |-> Absent, centroid |-> NoCentroid]

\* request.json of a request: a JSON object with its fields, null, or an
\* array.
JsonObject(doc) == [json |-> "object", doc |-> doc]
JsonNull == [json |-> "null", doc |-> EmptyDoc]
JsonArray == [json |-> "array", doc |-> EmptyDoc]

PotholeReport ==
    [EmptyDoc EXCEPT !.title = Str("Pothole"), !.category = Str("infrastructure"),
                     !.description = Str("Deep pothole on 4 St"),
                     !.geolocation = Geo(FloatVal(5105), FloatVal(-11407)),
                     !.userid = Str("u1"), !.timestamp = IntVal(1700000000),
                     !.datestamp = Str("2023-11-14")]

\* The payloads of POST /api/reports.
ReportPayloads ==
    { JsonObject(PotholeReport),
      JsonObject([PotholeReport EXCEPT !.category = Str("safety"),
                                       !.imagelink = Str("/images/a.jpg")]),
      JsonObject([PotholeReport EXCEPT !.userid = Absent]),
      JsonObject([PotholeReport EXCEPT !.category = Str("noise")]),
      JsonObject([PotholeReport EXCEPT !.title = IntVal(7)]),
      JsonObject([PotholeReport EXCEPT !.geolocation = Geo(IntVal(51), FloatVal(-11407))]),
      JsonObject([PotholeReport EXCEPT !.geolocation = Geo(FloatVal(5105), Absent)]),
      JsonNull, JsonArray }

\* The payloads of POST /api/communities.
CommunityPayloads ==
    { JsonObject([EmptyDoc EXCEPT !.name = Str("Beltline"),
                                  !.centroid = Centroid(FloatVal(5104), FloatVal(-11408))]),
      JsonObject([EmptyDoc EXCEPT !.name = Str("Beltline"),
                                  !.centroid = Centroid(Str("north"), FloatVal(-11408))]),
      JsonObject([EmptyDoc EXCEPT !.centroid = Centroid(FloatVal(5104), FloatVal(-11408))]),
      JsonObject([EmptyDoc EXCEPT !.name = Str("Beltline")]),
      JsonNull }

\* The forms of POST /api/reports_file: the text fields and whether a photo
\* is attached.
Form(title, description, category, lat, lon, photo) ==
    [title |-> title, description |-> description, category |-> category,
     lat |-> lat, lon |-> lon, photo |-> photo]

ReportForms ==
    { Form(Str("Pothole"), Str("Deep pothole on 4 St"), Str("Safety"),
           Str("51.05"), Str("-114.07"), TRUE),
      Form(Str("Pothole"), Str("Deep pothole on 4 St"), Str("noise"), Absent, Absent, TRUE),
      Form(Str("Pothole"), Str("Deep pothole on 4 St"), Absent, Str("here"), Str("-114.07"),
           TRUE),
      Form(Str("Pothole"), Str("Deep pothole on 4 St"), Absent, Absent, Absent, FALSE),
      Form(Absent, Str("Deep pothole on 4 St"), Absent, Absent, Absent, TRUE) }

Methods == {"POST", "OPTIONS"}

\* app.py _validate_report_data, one pass of its loop: the error of a field
\* of the payload, "" for none.
FieldError(data, rules) ==
    LET field == rules.field
        value == data[field]
    IN  IF value.t = "absent"
        THEN IF rules.required THEN "Missing required field: '" \o field \o "'" ELSE ""
        ELSE IF value.t # rules.type
            THEN "Field '" \o field \o "' must be " \o rules.type
        ELSE IF field = "category" /\ value.s \notin REPORT_CATEGORIES
            THEN "Category must be one of: disaster, infrastructure, safety"
        ELSE IF field = "geolocation"
            THEN IF value.lat.t = "absent" THEN "Missing geolocation field: 'lat'"
                 ELSE IF value.lat.t # "float" THEN "'lat' must be float"
                 ELSE IF value.lng.t = "absent" THEN "Missing geolocation field: 'lng'"
                 ELSE IF value.lng.t # "float" THEN "'lng' must be float"
                 ELSE ""
        ELSE ""

\* app.py _validate_report_data: the first error in the order of the schema,
\* "" for None.
_validate_report_data(data) ==
    IF data.json # "object" THEN "Payload must be a JSON object."
    ELSE LET failing == { i \in 1..Len(REPORT_SCHEMA) :
                            FieldError(data.doc, REPORT_SCHEMA[i]) # "" }
         IN  IF failing = {} THEN ""
             ELSE FieldError(data.doc,
                             REPORT_SCHEMA[CHOOSE i \in failing : \A j \in failing : i <= j])

\* float(text) of the form values of the model
FormFloat(text) ==
    CASE text = "51.05" -> Return(5105)
      [] text = "-114.07" -> Return(-11407)
      [] OTHER -> Raise

\* str.strip().lower() of the category labels of the model
Lower(s) == IF s = "Safety" THEN "safety" ELSE s

InitStore ==
    /\ ServiceInit
    /\ HarnessIdle
    /\ WEIGHTS = SourceWeights
    /\ API_KEY = TRUE
    /\ fetch = NoFetch
    /\ registering = [t \in Threads |-> NoRegistration]
    /\ \/ collection = Connected(<< >>) /\ usersCollection = Connected(<< >>)
       \/ collection = None /\ usersCollection = None

\* collection.insert_one(doc) either inserts and the route answers 201, or
\* raises and the route answers 500.
InsertReport(doc) ==
    /\ Len(collection.docs) < MaxReports
    /\ \/ /\ collection' = Connected(Append(collection.docs, doc))
          /\ response' = [status |-> 201, body |-> NoResult]
       \/ /\ collection' = collection
          /\ response' = [status |-> 500, body |-> NoResult]

Reply(status) ==
    /\ response' = [status |-> status, body |-> NoResult]
    /\ collection' = collection

StoreUnchanged ==
    UNCHANGED << phase, WEIGHTS, API_KEY, pc, args, coord, airResp, weatherResp, air,
                 weather, transit, sent, prev, order, harnessVars, fetch,
                 usersCollection, registering >>

\* app.py add_submission_json, POST /api/reports
add_submission_json ==
    /\ \E method \in Methods, data \in ReportPayloads :
          IF method = "OPTIONS" THEN Reply(200)
          ELSE IF collection.none THEN Reply(500)
          ELSE IF data.json = "null" THEN Reply(400)
          ELSE IF _validate_report_data(data) # "" THEN Reply(400)
          ELSE InsertReport(data.doc)
    /\ StoreUnchanged

\* app.py save_community, POST /api/communities
save_community ==
    /\ \E method \in Methods, payload \in CommunityPayloads :
          LET data == payload.doc      \* request.json or {}
              name == data.name
              centroid == data.centroid
              lat == centroid.lat
              lon == centroid.lon
          IN  IF method = "OPTIONS" THEN Reply(200)
              ELSE IF collection.none THEN Reply(500)
              ELSE IF name.t = "absent" \/ lat.t = "absent" \/ lon.t = "absent"
                  THEN Reply(400)
              ELSE IF lat.t \notin {"int", "float"} \/ lon.t \notin {"int", "float"}
                  THEN Reply(500)
              ELSE InsertReport(
                       [EmptyDoc EXCEPT !.type = Str("community"), !.name = name,
                                        !.centroid = Centroid(FloatVal(lat.n), FloatVal(lon.n)),
                                        !.createdAt = Str("2023-11-14T12:00:00+00:00")])
    /\ StoreUnchanged

\* app.py create_report_file, POST /api/reports_file; saving the photo may
\* fail.
create_report_file ==
    /\ \E method \in Methods, form \in ReportForms, saved \in BOOLEAN :
          LET title == form.title
              desc == form.description
              cat == IF form.category.t = "absent" THEN "infrastructure"
                     ELSE Lower(form.category.s)
              doc == [EmptyDoc EXCEPT
                         !.type = Str("report"), !.title = title, !.description = desc,
                         !.category = Str(IF cat \in REPORT_CATEGORIES THEN cat
                                          ELSE "infrastructure"),
                         !.image = Str("3f2a.jpg"),
                         !.createdAt = Str("2023-11-14T12:00:00+00:00")]
              located == /\ form.lat.t = "str" /\ form.lon.t = "str"
                         /\ ~FormFloat(form.lat.s).exc /\ ~FormFloat(form.lon.s).exc
          IN  IF method = "OPTIONS" THEN Reply(200)
              ELSE IF collection.none THEN Reply(500)
              ELSE IF title.t = "absent" \/ desc.t = "absent" \/ ~form.photo THEN Reply(400)
              ELSE IF ~saved THEN Reply(500)
              ELSE IF located
                  THEN InsertReport([doc EXCEPT
                                        !.latitude = FloatVal(FormFloat(form.lat.s).v),
                                        !.longitude = FloatVal(FormFloat(form.lon.s).v)])
              ELSE InsertReport(doc)
    /\ StoreUnchanged

NextStore == add_submission_json \/ save_community \/ create_report_file

SpecStore == InitStore /\ [][NextStore]_vars

(***************************************************************************)
(* POST /api/register, handled by the threads of the server.  The route    *)
(* looks the username up (find_one) and inserts the user (insert_one) in   *)
(* two separate operations of the database; between them another thread    *)
(* may run.                                                                *)
(***************************************************************************)
Usernames == {"ann", "bob"}

Payload(username, password) == [kind |-> "object", username |-> username, password |-> password]

RegisterPayloads ==
    { Payload(Str(u), Str("pw")) : u \in Usernames }
        \cup { Payload(Str("ann"), Absent), Payload(Absent, Str("pw")),
               [NoPayload EXCEPT !.kind = "null"] }

\* The username is that of a stored user: usersCollection.find_one({"username": ...})
Stored(username) ==
    \E i \in 1..Len(usersCollection.docs) : usersCollection.docs[i].username = username

\* app.py validate_user_register, "" for None
validate_user_register(data) ==
    IF usersCollection.none THEN "Database unavailable for registration check."
    ELSE IF Stored(data.username) THEN "Username found"
    ELSE ""

\* bcrypt.generate_password_hash(password).decode("utf-8")
generate_password_hash(password) == "$2b$12$" \o password

Respond(t, method, data, status) ==
    registering' = [registering EXCEPT ![t] = [pc |-> "idle", method |-> method,
                                               data |-> data, status |-> status]]

RegisterUnchanged ==
    UNCHANGED << phase, WEIGHTS, API_KEY, pc, args, coord, airResp, weatherResp, air,
                 weather, transit, sent, response, prev, order, harnessVars, fetch,
                 collection >>

\* The requests that are past the lookup and have not inserted yet.
Inserting == { t \in Threads : registering[t].pc = "insert" }

\* app.py register lines 272-297: up to the lookup of the username and the
\* check of the fields.
register(t) ==
    /\ registering[t].pc = "idle"
    /\ Len(usersCollection.docs) + Cardinality(Inserting) < MaxUsers
    /\ \E method \in Methods, data \in RegisterPayloads :
          IF usersCollection.none THEN Respond(t, method, data, 500)
          ELSE IF method = "OPTIONS" THEN Respond(t, method, data, 200)
          ELSE IF data.kind = "null" THEN Respond(t, method, data, 400)
          ELSE IF validate_user_register(data)
                     \notin {"", "Database unavailable for registration check."}
              THEN Respond(t, method, data, 400)
          ELSE IF data.password.t = "absent" \/ data.username.t = "absent"
              THEN Respond(t, method, data, 400)
          ELSE registering' = [registering EXCEPT ![t] = [pc |-> "insert", method |-> method,
                                                          data |-> data, status |-> 0]]
    /\ usersCollection' = usersCollection
    /\ RegisterUnchanged

\* app.py register lines 299-313: the password is hashed and the user is
\* inserted; insert_one may raise.
register_insert(t) ==
    /\ registering[t].pc = "insert"
    /\ LET data == registering[t].data
           user == [username |-> data.username,
                    password |-> Str(generate_password_hash(data.password.s)),
                    status |-> Str("user")]
       IN  \/ /\ usersCollection' = Connected(Append(usersCollection.docs, user))
              /\ Respond(t, "POST", data, 201)
           \/ /\ usersCollection' = usersCollection
              /\ Respond(t, "POST", data, 500)
    /\ RegisterUnchanged

NextRegister == \E t \in Threads : register(t) \/ register_insert(t)

SpecRegister == InitStore /\ [][NextRegister]_vars

(***************************************************************************)
(* Vocabulary of the properties.                                           *)
(***************************************************************************)
\* sub occurs in str
Contains(str, sub) ==
    \E i \in 1..(Len(str) - Len(sub) + 1) : SubSeq(str, i, i + Len(sub) - 1) = sub

\* x is num/den rounded to a nearest integer (either neighbour on a tie)
IsNearest(x, num, den) == 2 * Abs(x * den - num) <= den

FactorNames == {"air_quality", "weather_rating", "transit_score"}

\* The route accepted the coordinate of the current request.
CoordinateAccepted == ~ParseFloat(args.lat).exc /\ ~ParseFloat(args.lng).exc
\* The current request is finished: the route has answered it.
Answered == pc = "idle" /\ response.status # 0
\* The adapters of the current request have returned.
AirReturned == pc \in {"weather", "transit", "combine"}
WeatherReturned == pc \in {"transit", "combine"}

\* The air / weather call failed: no response, or an error status.
CallFailed(resp) == resp.kind = "error" \/ (resp.kind = "http" /\ RaiseForStatus(resp))
\* An HTTP 200 air response marked found that carries a numeric index value.
AirUsable(resp) ==
    /\ resp.kind = "http" /\ resp.status = 200
    /\ resp.body.json /\ resp.body.found /\ resp.body.value.t = "num"
\* A successful weather response without a temperature value.
WeatherWithoutTemperature(resp) ==
    /\ resp.kind = "http" /\ resp.status = 200
    /\ resp.body.json /\ resp.body.temperature.t = "absent"

IsDefault(factor) ==
    factor.score = DEFAULT_SCORE /\ Contains(factor.desc, DEFAULT_DESCRIPTION)

\* C1: every request with a numeric coordinate is answered with a full
\* result (total and the three factors, each with score, description and
\* weight), whatever the air and weather endpoints did; no exception leaves
\* the scorer.
C1_FullResultAlways ==
    (Answered /\ CoordinateAccepted) =>
        /\ response.status = 200
        /\ response.body.city_quality_score \in 10..100
        /\ \A f \in FactorNames :
              /\ response.body.individual_ratings[f].score \in 10..100
              /\ response.body.individual_ratings[f].desc # ""
              /\ response.body.individual_ratings[f].weight = WEIGHTS[f]

C3_AirDefaultUnless200 ==
    (AirReturned /\ ~AirUsable(airResp)) => IsDefault(air)

\* C4: the weather adapter returns the default (5.5, "Data unavailable") when
\* the request fails and when the response has no temperature value.
C4_WeatherDefaultWithoutTemperature ==
    (WeatherReturned /\ (CallFailed(weatherResp) \/ WeatherWithoutTemperature(weatherResp)))
        => IsDefault(weather)

C6_TotalIsWeightedSum ==
    (Answered /\ response.status = 200) =>
        LET r == response.body.individual_ratings
            sum == r.air_quality.score * r.air_quality.weight
                     + r.weather_rating.score * r.weather_rating.weight
                     + r.transit_score.score * r.transit_score.weight
        IN  /\ IsNearest(response.body.city_quality_score, sum, 100)
            /\ r.air_quality.score = air.score
            /\ r.weather_rating.score = weather.score
            /\ r.transit_score.score = transit.score
            /\ (<<r.air_quality.score, r.weather_rating.score, r.transit_score.score>>
                    = <<82, 100, 100>>
                /\ <<r.air_quality.weight, r.weather_rating.weight, r.transit_score.weight>>
                    = <<40, 30, 30>>)
                => response.body.city_quality_score = 93

\* C6 witness: scenario 1 (hub, MAQI 20, 25 degrees C) was answered.
C6_Witness ==
    /\ Answered /\ response.status = 200
    /\ air.score = 82 /\ weather.score = 100 /\ transit.score = 100
    /\ response.body.city_quality_score = 93

\* C7: whenever requests can be served the weights sum to 1.0 within 0.001;
\* a configuration summing to 0.9 never gets to serve, a failed load handles
\* no request, and no step changes the weights.
C7_WeightsSumToOne ==
    /\ [](phase = "serving" => Abs(WeightSum(WEIGHTS) * 10 - 1000) <= 1)
    /\ [](WeightSum(WEIGHTS) = 90 => phase \in {"load", "failed"})
    /\ [](phase # "serving" => (pc = "idle" /\ response = NoResponse))
    /\ [][WEIGHTS' = WEIGHTS]_vars

\* C7 witness: loading the configuration that sums to 0.9 has failed.
C7_Witness == phase = "failed" /\ WeightSum(WEIGHTS) = 90

\* C8: every score a scaling function returns lies in [1.0, 10.0], in every
\* implementation of the repository.
C8_ScoresInRange ==
    scaled.fn # "none" => (scaled.score >= 100 /\ scaled.score <= 1000)

\* C9: the composite total of every answered request lies in [1.0, 10.0].
C9_TotalInRange ==
    (Answered /\ response.status = 200) =>
        (response.body.city_quality_score >= 10 /\ response.body.city_quality_score <= 100)

\* C9 witness: a total at the upper end (all three factors 10.0) was returned.
C9_Witness ==
    /\ Answered /\ response.status = 200
    /\ air.score = 100 /\ weather.score = 100 /\ transit.score = 100
    /\ response.body.city_quality_score = 100

\* C10: both air scaling functions return 10.0 for MAQI <= 0, 1.0 for
\* MAQI >= 100 and 10 - 0.09 * MAQI to the nearest tenth in between; MAQI 20
\* gives 8.2.
C10_AirScale ==
    (raw.kind = "maqi" /\ scaled.fn # "none") =>
        /\ raw.x <= 0 => scaled.score = 1000
        /\ raw.x >= 100 => scaled.score = 100
        /\ (raw.x > 0 /\ raw.x < 100) =>
              /\ scaled.score % 10 = 0
              /\ IsNearest(scaled.score \div 10, 1000 - 9 * raw.x, 10)
        /\ raw.x = 20 => scaled.score = 820

\* C10 witness: MAQI 20 was scaled to 8.2 by app.py.
C10_Witness ==
    /\ raw = [kind |-> "maqi", x |-> 20]
    /\ scaled = [fn |-> "app._scale_maqi_to_score", score |-> 820]

\* Two applications of the same scaling function to measurements of one kind.
SameFunctionTwice(kind) ==
    raw.kind = kind /\ scaled.fn # "none" /\ before.fn = scaled.fn

\* C11: the air scaling functions are monotonically non-increasing: of two
\* MAQI values, inside or outside [0, 100], the larger one never gets the
\* larger score, rounding included.
C11_AirScaleMonotone ==
    (SameFunctionTwice("maqi") /\ before.x <= raw.x) => before.score >= scaled.score

\* C11 witness: app.py scaled MAQI 35 (6.85, printed 6.8) and then MAQI 36
\* (6.76, printed 6.8).
C11_Witness ==
    /\ raw = [kind |-> "maqi", x |-> 36]
    /\ before = [x |-> 35, fn |-> "app._scale_maqi_to_score", score |-> 680]
    /\ scaled = [fn |-> "app._scale_maqi_to_score", score |-> 680]

\* C12: every weather scaling function returns 10.0 at 25 degrees, exactly
\* 1.0 at -40 and at 90 degrees, the minimum 1.0 from a deviation of 58.5
\* degrees on (<= -33.5 or >= 83.5 degrees), and never 0.
C12_WeatherScale ==
    (raw.kind = "temp" /\ scaled.fn # "none") =>
        /\ raw.x = 25000 => scaled.score = 1000
        /\ raw.x \in {-40000, 90000} => scaled.score = 100
        /\ Abs(raw.x - 25000) >= 58500 => scaled.score = 100
        /\ scaled.score >= 100

\* C13: the weather scaling function is symmetric around 25 degrees: two
\* temperatures at the same deviation above and below 25 get the same score.
C13_WeatherSymmetric ==
    (SameFunctionTwice("temp") /\ scaled.fn = "app.calculate_weather_rating"
        /\ before.x - 25000 = 25000 - raw.x) => scaled.score = before.score

\* The transit adapter of the current request has been called.
TransitCalled == pc = "combine" \/ (Answered /\ CoordinateAccepted)

\* Great-circle distance from the hub, in metres, of the finite coordinates
\* of the model; the last one lies 0.1 m from the hub's antipode, half the
\* circumference of the sphere of radius 6371 km away.
HubDistance(q) ==
    CASE <<q.lat.text, q.lng.text>> = <<"51.045", "-114.075">> -> 0
      [] <<q.lat.text, q.lng.text>> = <<"51.05", "-114.07">> -> 657
      [] <<q.lat.text, q.lng.text>> = <<"51.09", "-114.15">> -> 7246
      [] <<q.lat.text, q.lng.text>> = <<"50.93", "-113.88">> -> 18703
      [] <<q.lat.text, q.lng.text>> = <<"-51.04500043", "65.9249988">> -> 20015087

FiniteCoordinate(q) ==
    /\ q.lat.present /\ q.lng.present
    /\ ParseFloat(q.lat) = Return(Fin(q.lat.text))
    /\ ParseFloat(q.lng) = Return(Fin(q.lng.text))

\* C14: the transit score is 10.0 at the hub, exactly 2.0 for every
\* coordinate 15 km or more from the hub however far beyond, and
\* 10 - distance * 8 / 15 to the nearest tenth in between.
C14_TransitScale ==
    (TransitCalled /\ FiniteCoordinate(args)) =>
        LET d == HubDistance(args)
        IN  /\ d = 0 => transit.score = 100
            /\ d >= 15000 => transit.score = 20
            /\ (d > 0 /\ d < 15000) => IsNearest(transit.score, 37500 - 2 * d, 375)

\* C15: the transit adapter always succeeds: for every coordinate the scorer
\* passes to it, it returns a score and a description and raises nothing.
C15_TransitAlwaysSucceeds ==
    TransitCalled => (transit.score \in 10..100 /\ transit.desc # "")

\* A query argument that is missing or not numeric.
Invalid(arg) == ~arg.present \/ arg.text = "abc"

SameInputs ==
    /\ prev.valid
    /\ prev.coord = coord
    /\ prev.airResp = airResp
    /\ prev.weatherResp = weatherResp

C19_EveryCallHasTimeout ==
    fetch.fn # "none" =>
        /\ fetch.pc = "waiting" =>
              (fetch.timeout # NoTimeout /\ fetch.waited <= fetch.timeout)
        /\ (fetch.pc = "done" /\ fetch.upstream.kind = "stall") =>
              (fetch.result.kind = "returned" /\ fetch.result.score = DEFAULT_SCORE)

\* The retrying fetch of air_api_fetcher.py is the function being called.
Retrying == fetch.fn = "air_api_fetcher.get_current_air"
\* The response that ended the call carried data.
GotData ==
    fetch.upstream.kind = "http" /\ fetch.upstream.status = 200 /\ fetch.upstream.body.json

\* C20: the retrying air fetch terminates: it sends at most 3 requests,
\* sleeps 1 second and then 2 seconds between consecutive attempts and not
\* after the last one, and when every attempt has failed get_current_air
\* returns the default score 5.5.
C20_RetryTerminates ==
    /\ [](Retrying =>
            /\ fetch.requests <= 3
            /\ fetch.slept \in { << >>, << 1 >>, << 1, 2 >> }
            /\ fetch.pc \in {"waiting", "done"} => Len(fetch.slept) < fetch.requests
                                                      \/ fetch.requests = 0
            /\ fetch.pc = "request" => Len(fetch.slept) = fetch.requests
            /\ (fetch.pc = "done" /\ ~GotData) =>
                  /\ fetch.result.kind = "returned"
                  /\ fetch.result.score = 55
                  /\ (API_KEY /\ fetch.upstream.status # 401) =>
                        (fetch.requests = 3 /\ fetch.slept = << 1, 2 >>))
    /\ Retrying ~> (fetch.pc = "done")

\* C20 witness: three attempts failed, the last one by timeout, after sleeps
\* of 1 and 2 seconds, and the default was returned.
C20_Witness ==
    /\ Retrying /\ fetch.pc = "done"
    /\ fetch.requests = 3 /\ fetch.slept = << 1, 2 >>
    /\ fetch.upstream.kind = "stall" /\ fetch.waited = 10
    /\ fetch.result = Returned(55, 50, "Data Unavailable - Moderate (Data unavailable)")

\* The band that the specification names for a score in tenths.
Band(score) ==
    IF score >= 85 THEN "Excellent Access (Walkable to LRT)"
    ELSE IF score >= 60 THEN "Good Access (Main Bus Route Coverage)"
    ELSE "Limited Access (Suburban/Car Dependent)"

Tenths(t) == ToString(t \div 10) \o "." \o ToString(t % 10)

\* C21: the transit description names the band of the rounded score
\* (Excellent from 8.5, Good from 6.0, Limited below) and carries the
\* distance from the hub itself, not the clamped one, rounded to one decimal,
\* also beyond 15 km.
C21_TransitDescription ==
    transit # NoFactor =>
        \E shown \in {Tenths(t) : t \in 0..(DistSteps \div 5 + 1)} \cup {"nan"} :
            /\ transit.desc = "Transit: " \o Band(transit.score) \o " (" \o shown
                                 \o " km from downtown)"
            /\ raw.kind = "nan" <=> shown = "nan"
            /\ raw.kind = "dist" =>
                   \E t \in 0..(DistSteps \div 5 + 1) :
                       shown = Tenths(t) /\ IsNearest(t, raw.x, 100)

C21_Witness ==
    /\ raw = [kind |-> "dist", x |-> 18700]
    /\ transit = Factor(20, "Transit: Limited Access (Suburban/Car Dependent) (18.7 km from downtown)")

\* C26: the transit score is never below 2.0: get_transit_score returns a
\* value in [2.0, 10.0] for every coordinate the route passes to it, so the
\* floor max(1.0, score) never changes the result.
C26_TransitAtLeastTwo ==
    transit # NoFactor => transit.score >= 20 /\ transit.score <= 100

\* The two air scaling functions have been applied, one after the other, to
\* the same MAQI value.
BothAirScalings ==
    /\ raw.kind = "maqi"
    /\ scaled.fn # "none" /\ before.fn # "none" /\ before.fn # scaled.fn
    /\ before.x = raw.x

\* C27: the two air scaling implementations are equivalent: for every MAQI
\* value _scale_maqi_to_score of app.py and _scale_maqi_to_score of
\* air_api_fetcher.py return the same score.
C27_AirScalingsEquivalent == BothAirScalings => scaled.score = before.score

C27_Witness ==
    /\ BothAirScalings
    /\ raw.x = 35
    /\ before = [x |-> 35, fn |-> "app._scale_maqi_to_score", score |-> 680]
    /\ scaled = [fn |-> "air_api_fetcher._scale_maqi_to_score", score |-> 680]

\* The three adapters of the current call have returned.
AdaptersReturned == pc = "combine"

\* C25: one call of calculate_city_quality_score invokes each of the three
\* adapters exactly once (each factor is set once, in its own step, and all
\* three are set when the adapters have returned) and sends at most one
\* request to the air endpoint and at most one to the weather endpoint,
\* whatever the upstream answers; without the API credential it sends no
\* request and both networked factors are defaulted.
C25_OneRequestPerAdapter ==
    /\ [](sent.air <= 1 /\ sent.weather <= 1)
    /\ [](AirReturned => sent.air = (IF API_KEY THEN 1 ELSE 0))
    /\ [](WeatherReturned => sent.weather = (IF API_KEY THEN 1 ELSE 0))
    /\ [](AdaptersReturned =>
            air # NoFactor /\ weather # NoFactor /\ transit # NoFactor)
    /\ []((AdaptersReturned /\ ~API_KEY) =>
            /\ sent = NoSent
            /\ air = Factor(DEFAULT_SCORE, "Air: Data unavailable (no API key)")
            /\ weather = Factor(DEFAULT_SCORE, "Weather: API key missing"))
    /\ [][/\ (air' # air /\ air' # NoFactor) => (pc = "air" /\ air = NoFactor)
          /\ (weather' # weather /\ weather' # NoFactor)
                 => (pc = "weather" /\ weather = NoFactor)
          /\ (transit' # transit /\ transit' # NoFactor)
                 => (pc = "transit" /\ transit = NoFactor)]_vars

C25_Witness ==
    /\ Answered /\ response.status = 200
    /\ API_KEY
    /\ airResp = RequestException(NoAirBody)
    /\ weatherResp = Http(500, NoWeatherBody)
    /\ sent = [air |-> 1, weather |-> 1]
    /\ IsDefault(air) /\ IsDefault(weather)

\* One of the retrying fetches is being called and has got a response.
ResponseArrived ==
    /\ fetch.fn \in RetryingFunctions
    /\ fetch.pc = "waiting"
    /\ fetch.upstream.kind = "http"

\* The call ends with this step, without another request or sleep.
EndsNow(fetched) ==
    /\ fetch'.pc = "done"
    /\ fetch'.fetched = fetched
    /\ fetch'.requests = fetch.requests
    /\ fetch'.slept = fetch.slept

\* The loop goes on to another attempt.
AnotherAttempt == fetch.fn \in RetryingFunctions /\ fetch'.pc = "sleep"

\* C24 as stated: in the retrying fetches a decisive response ends the
\* attempts: after HTTP 200 the data is returned and no further request is
\* sent, after HTTP 401 there is no further attempt and no backoff wait and
\* no data is returned; only other statuses and network errors lead to
\* another attempt.
C24_DecisiveResponseEnds ==
    [][/\ (ResponseArrived /\ fetch.upstream.status = 200) => EndsNow("data")
       /\ (ResponseArrived /\ fetch.upstream.status = 401) => EndsNow("none")
       /\ AnotherAttempt =>
              (fetch.upstream.kind \in {"error", "stall"}
                 \/ fetch.upstream.status \notin {200, 401})]_vars

\* C24 amended: after an HTTP 200 response whose body decodes as JSON the
\* decoded body is returned and no further request is sent; after HTTP 401
\* there is no further attempt and no backoff wait and no data is returned;
\* another attempt follows only a response with another status, a network
\* error, or an HTTP 200 response whose body does not decode.
C24_DecodedResponseEnds ==
    [][/\ (ResponseArrived /\ fetch.upstream.status = 200 /\ fetch.upstream.body.json)
              => EndsNow("data")
       /\ (ResponseArrived /\ fetch.upstream.status = 401) => EndsNow("none")
       /\ AnotherAttempt =>
              (fetch.upstream.kind \in {"error", "stall"}
                 \/ fetch.upstream.status \notin {200, 401}
                 \/ (fetch.upstream.status = 200 /\ ~fetch.upstream.body.json))]_vars

\* C24 witness: the second attempt of the noise fetch was answered with
\* HTTP 401: the call ended without a second sleep and without data.
C24_Witness ==
    /\ fetch.fn = "noise_api_fetcher.get_current_noise" /\ fetch.pc = "done"
    /\ fetch.upstream = Http(401, NoAirBody)
    /\ fetch.requests = 2 /\ fetch.slept = << 1 >>
    /\ fetch.fetched = "none"
    /\ fetch.result = Returned(55, 50, "Data Unavailable - Moderate (Default Baseline)")

\* A document conforms to the report schema: it has title, category,
\* description, geolocation with lat and lng, userid, timestamp and
\* datestamp, the category being one of the three.
Conforms(doc) ==
    /\ doc.title.t = "str"
    /\ doc.category.t = "str" /\ doc.category.s \in {"disaster", "infrastructure", "safety"}
    /\ doc.description.t = "str"
    /\ doc.geolocation.t = "dict"
    /\ doc.geolocation.lat.t = "float" /\ doc.geolocation.lng.t = "float"
    /\ doc.userid.t = "str"
    /\ doc.timestamp.t = "int"
    /\ doc.datestamp.t = "str"

\* C22: after any sequence of requests to POST /api/reports,
\* POST /api/reports_file and POST /api/communities, every document of the
\* reports collection conforms to the report schema.
C22_ReportsConform ==
    \A i \in 1..Len(collection.docs) : Conforms(collection.docs[i])

\* No two stored users have the same username.
UsernamesUnique ==
    \A i, j \in 1..Len(usersCollection.docs) :
        usersCollection.docs[i].username = usersCollection.docs[j].username => i = j

\* Thread t receives, in this step, a POST for a username that is stored.
ReceivesStoredUsername(t) ==
    /\ registering[t].pc = "idle"
    /\ registering'[t] # registering[t]
    /\ registering'[t].method = "POST"
    /\ registering'[t].data.kind = "object"
    /\ \E i \in 1..Len(usersCollection.docs) :
          usersCollection.docs[i].username = registering'[t].data.username

\* A register request for a stored username is answered 400 and inserts
\* nothing.
StoredUsernameRejected ==
    \A t \in Threads :
        ReceivesStoredUsername(t) =>
            /\ registering'[t].pc = "idle" /\ registering'[t].status = 400
            /\ usersCollection' = usersCollection

\* C23: usernames stay unique in the users collection: after any sequence
\* of register requests, two concurrent ones for the same username
\* included, at most one stored user has a given username, and a register
\* request for a stored username is rejected with 400 without inserting.
C23_UsernamesStayUnique ==
    /\ []UsernamesUnique
    /\ [][StoredUsernameRejected]_vars

====
